---- MODULE Spec2Model ----
(***************************************************************************)
(* Model of ornament.c: startup (main), shape placement, the per-shape     *)
(* animation tick (update_shape) and the multi-window frame loop           *)
(* (app_loop).                                                             *)
(*                                                                         *)
(* float values are modelled as exact rationals <<n, d>> with d > 0 in     *)
(* lowest terms.                                                           *)
(***************************************************************************)
EXTENDS Integers, Sequences, FiniteSets, Bags, TLC

\* ------------------------------------------------------------------ bounds
\* rand() returns 0..RandMax (stands for RAND_MAX)
RandMax == 1
\* the elapsed wall-clock time of a frame is k/(10*DtSteps) seconds
DtSteps == 1
\* largest number of monitors glfwGetMonitors reports
MaxMon == 2
\* largest number of records in the configuration list
MaxShapes == 3
\* frames the loop model runs before the environment must close all windows
MaxFrames == 2
\* records the placement model reads
MaxPlaced == 2
\* lines of the configuration file
MaxLines == 2
\* largest segment count of the sphere and torus calls tried besides the
\* calls of main
MaxSeg == 4

\* ------------------------------------------------------- float arithmetic
RECURSIVE GCD(_, _)
GCD(a, b) == IF b = 0 THEN a ELSE GCD(b, a % b)

Abs(x) == IF x < 0 THEN -x ELSE x

\* the rational n/d in lowest terms (d > 0)
Rat(n, d) == LET g == GCD(Abs(n), d) IN <<n \div g, d \div g>>

F(n) == <<n, 1>>

RAdd(a, b) == Rat(a[1] * b[2] + b[1] * a[2], a[2] * b[2])
RNeg(a) == <<-a[1], a[2]>>
RSub(a, b) == RAdd(a, RNeg(b))
RMul(a, b) == Rat(a[1] * b[1], a[2] * b[2])
\* a / b, b > 0
RDiv(a, b) == Rat(a[1] * b[2], a[2] * b[1])
RLt(a, b) == a[1] * b[2] < b[1] * a[2]
RLe(a, b) == a[1] * b[2] <= b[1] * a[2]

\* fmodf(x, 1.0f): the result has the sign of x and magnitude below 1
fmodf1(x) == IF x[1] >= 0 THEN Rat(x[1] % x[2], x[2])
             ELSE Rat(-((-x[1]) % x[2]), x[2])

\* ----------------------------------------------------------------- random
\* the values rand() can return
RandSet == 0 .. RandMax

\* frand01 for the rand() result r: (float)rand()/(float)RAND_MAX
frand01(r) == Rat(r, RandMax)

\* frand_range(a, b) for the rand() result r
frand_range(a, b, r) == RAdd(a, RMul(RSub(b, a), frand01(r)))

\* ------------------------------------------------------------ enumerations
ShapeKinds == {"SH_CUBE", "SH_SPHERE", "SH_PYRAMID", "SH_TORUS", "SH_OCT"}
ColorKinds == {"COL_GREEN", "COL_YELLOW", "COL_RED", "COL_BLUE", "COL_CYAN",
               "COL_PINK", "COL_ORANGE", "COL_PURPLE", "COL_RANDOM"}
Anchors == {"POS_TL", "POS_TC", "POS_TR", "POS_CL", "POS_C", "POS_CR",
            "POS_BL", "POS_BC", "POS_BR"}

\* -------------------------------------------------------------- animation
\* Quaternions are kept as the expressions that compute them: sines and
\* cosines are not evaluated.  Angles of q_from_euler are in radians, those
\* of the spin in degrees (the factor M_PI/180 is left out).
q_ident == <<"ident">>

q_from_euler(pitch, yaw, roll) == <<"euler", pitch, yaw, roll>>

q_mul(a, b) == <<"mul", a, b>>

q_slerp(a, b, t) == <<"slerp", a, b, t>>

\* dq of update_shape: q_mul(q_from_axis_angle(v3(0,1,0), dYaw),
\* q_from_axis_angle(v3(1,0,0), dPitch))
SpinDelta(dYaw, dPitch) == <<"spin", dYaw, dPitch>>

\* s->orient as update_shape finds it: the field orient of the model holds
\* the expression the last tick assigned, over this value
Prev == <<"orient">>

\* the draws of rand() made for one ShapeRuntime at creation, by field; in
\* the one-shape specification the draws of target, spinY and spinX are 0
DrawRec == [hue : RandSet, hueSpeed : RandSet, timer : RandSet, dur : RandSet,
            target : {<<0, 0, 0>>}, spinY : {0}, spinX : {0}]

\* ShapeRuntime R as main builds it for the record sc placed at pos
NewRuntime(sc, pos, d) ==
    [shape         |-> sc.shape,
     color         |-> sc.color,
     hue           |-> frand01(d.hue),
     hueSpeed      |-> frand_range(Rat(1, 4), Rat(1, 2), d.hueSpeed),
     orient        |-> q_ident,
     target        |-> q_from_euler(frand_range(F(-1), F(1), d.target[1]),
                                    frand_range(F(-1), F(1), d.target[2]),
                                    frand_range(F(-1), F(1), d.target[3])),
     spinY         |-> frand_range(F(180), F(360), d.spinY),
     spinX         |-> frand_range(F(15), F(45), d.spinX),
     reorientTimer |-> frand_range(F(4), F(8), d.timer),
     reorientDur   |-> frand_range(Rat(3, 2), Rat(5, 2), d.dur),
     reorientT     |-> F(0),
     worldPos      |-> pos]

\* the results of the next two calls of rand()
RandSeq == [1 .. 2 -> RandSet]

\* update_shape: the tick enters or continues a reorientation
\* (s->reorientTimer <= 0.0f || s->reorientT > 0.0f, after the decrement)
Reorienting(s, t) ==
    RLe(RSub(s.reorientTimer, t), F(0)) \/ RLt(F(0), s.reorientT)

\* update_shape: the tick starts a reorientation (s->reorientT == 0.0f)
Entering(s, t) == Reorienting(s, t) /\ s.reorientT = F(0)

\* update_shape: the tick completes the reorientation
\* (s->reorientT >= 1.0f after s->reorientT += dt / s->reorientDur)
Completes(s, t) ==
    Reorienting(s, t) /\ RLe(F(1), RAdd(s.reorientT, RDiv(t, s.reorientDur)))

\* what rand() has to offer to the tick: results are drawn only on a tick
\* that reaches a call of rand(); the three draws of a new target are 0
RandOffer(s, t) == IF Completes(s, t) THEN RandSeq
                   ELSE IF Entering(s, t) THEN {<<0, 0, 0>>}
                   ELSE {<<>>}

\* the target sampled from the results rs[1..3] of rand()
SampleTarget(rs) ==
    q_from_euler(frand_range(Rat(-3, 2), Rat(3, 2), rs[1]),
                 frand_range(Rat(-3, 2), Rat(3, 2), rs[2]),
                 frand_range(Rat(-3, 2), Rat(3, 2), rs[3]))

\* the continuous spin: s->orient = q_mul(dq, s->orient), where s->orient
\* is base and the rates are scaled by spinScale
Spin(s, spinScale, t, base) ==
    q_mul(SpinDelta(RMul(RMul(s.spinY, spinScale), t),
                    RMul(RMul(s.spinX, spinScale), t)),
          base)

\* a slip of update_shape: the completion test is > instead of >=
update_shape_gt(s, t, rs) ==
    LET hue1   == fmodf1(RAdd(s.hue, RMul(s.hueSpeed, t)))
        timer1 == RSub(s.reorientTimer, t)
        tgt    == IF s.reorientT = F(0) THEN SampleTarget(rs) ELSE s.target
        k      == IF s.reorientT = F(0) THEN 3 ELSE 0
        T1     == RAdd(s.reorientT, RDiv(t, s.reorientDur))
    IN  IF ~Reorienting(s, t)
        THEN [s EXCEPT !.hue = hue1, !.reorientTimer = timer1,
                       !.orient = Spin(s, F(1), t, Prev)]
        ELSE IF RLt(F(1), T1)
             THEN [s EXCEPT !.hue = hue1, !.target = tgt, !.reorientT = F(0),
                            !.reorientTimer =
                                frand_range(F(4), F(8), rs[k + 1]),
                            !.orient = Spin(s, F(1), t, tgt)]
             ELSE [s EXCEPT !.hue = hue1, !.reorientTimer = timer1,
                            !.target = tgt, !.reorientT = T1,
                            !.orient = Spin(s, Rat(1, 2), t,
                                            q_slerp(Prev, tgt, T1))]

\* a slip of update_shape: the progress is assigned (=) instead of
\* accumulated (+=)
update_shape_assign(s, t, rs) ==
    LET hue1   == fmodf1(RAdd(s.hue, RMul(s.hueSpeed, t)))
        timer1 == RSub(s.reorientTimer, t)
        tgt    == IF s.reorientT = F(0) THEN SampleTarget(rs) ELSE s.target
        k      == IF s.reorientT = F(0) THEN 3 ELSE 0
        T1     == RDiv(t, s.reorientDur)
    IN  IF ~Reorienting(s, t)
        THEN [s EXCEPT !.hue = hue1, !.reorientTimer = timer1,
                       !.orient = Spin(s, F(1), t, Prev)]
        ELSE IF RLe(F(1), T1)
             THEN [s EXCEPT !.hue = hue1, !.target = tgt, !.reorientT = F(0),
                            !.reorientTimer =
                                frand_range(F(4), F(8), rs[k + 1]),
                            !.orient = Spin(s, F(1), t, tgt)]
             ELSE [s EXCEPT !.hue = hue1, !.reorientTimer = timer1,
                            !.target = tgt, !.reorientT = T1,
                            !.orient = Spin(s, Rat(1, 2), t,
                                            q_slerp(Prev, tgt, T1))]

\* a variant of update_shape that also redraws reorientDur on completion
update_shape_redraw(s, t, rs) ==
    LET hue1   == fmodf1(RAdd(s.hue, RMul(s.hueSpeed, t)))
        timer1 == RSub(s.reorientTimer, t)
        tgt    == IF s.reorientT = F(0) THEN SampleTarget(rs) ELSE s.target
        k      == IF s.reorientT = F(0) THEN 3 ELSE 0
        T1     == RAdd(s.reorientT, RDiv(t, s.reorientDur))
    IN  IF ~Reorienting(s, t)
        THEN [s EXCEPT !.hue = hue1, !.reorientTimer = timer1,
                       !.orient = Spin(s, F(1), t, Prev)]
        ELSE IF RLe(F(1), T1)
             THEN [s EXCEPT !.hue = hue1, !.target = tgt, !.reorientT = F(0),
                            !.reorientTimer =
                                frand_range(F(4), F(8), rs[k + 1]),
                            !.reorientDur =
                                frand_range(Rat(3, 2), Rat(5, 2), rs[k + 2]),
                            !.orient = Spin(s, F(1), t, tgt)]
             ELSE [s EXCEPT !.hue = hue1, !.reorientTimer = timer1,
                            !.target = tgt, !.reorientT = T1,
                            !.orient = Spin(s, Rat(1, 2), t,
                                            q_slerp(Prev, tgt, T1))]

\* a slip of update_shape: the spin keeps its full rate while the shape
\* turns to its target
update_shape_fullspin(s, t, rs) ==
    LET hue1   == fmodf1(RAdd(s.hue, RMul(s.hueSpeed, t)))
        timer1 == RSub(s.reorientTimer, t)
        tgt    == IF s.reorientT = F(0) THEN SampleTarget(rs) ELSE s.target
        k      == IF s.reorientT = F(0) THEN 3 ELSE 0
        T1     == RAdd(s.reorientT, RDiv(t, s.reorientDur))
    IN  IF ~Reorienting(s, t)
        THEN [s EXCEPT !.hue = hue1, !.reorientTimer = timer1,
                       !.orient = Spin(s, F(1), t, Prev)]
        ELSE IF RLe(F(1), T1)
             THEN [s EXCEPT !.hue = hue1, !.target = tgt, !.reorientT = F(0),
                            !.reorientTimer =
                                frand_range(F(4), F(8), rs[k + 1]),
                            !.orient = Spin(s, F(1), t, tgt)]
             ELSE [s EXCEPT !.hue = hue1, !.reorientTimer = timer1,
                            !.target = tgt, !.reorientT = T1,
                            !.orient = Spin(s, F(1), t,
                                            q_slerp(Prev, tgt, T1))]

\* a slip of update_shape: the target is sampled on every tick of a
\* reorientation
update_shape_resample(s, t, rs) ==
    LET hue1   == fmodf1(RAdd(s.hue, RMul(s.hueSpeed, t)))
        timer1 == RSub(s.reorientTimer, t)
        tgt    == SampleTarget(rs)
        k      == 3
        T1     == RAdd(s.reorientT, RDiv(t, s.reorientDur))
    IN  IF ~Reorienting(s, t)
        THEN [s EXCEPT !.hue = hue1, !.reorientTimer = timer1,
                       !.orient = Spin(s, F(1), t, Prev)]
        ELSE IF RLe(F(1), T1)
             THEN [s EXCEPT !.hue = hue1, !.target = tgt, !.reorientT = F(0),
                            !.reorientTimer =
                                frand_range(F(4), F(8), rs[k + 1]),
                            !.orient = Spin(s, F(1), t, tgt)]
             ELSE [s EXCEPT !.hue = hue1, !.reorientTimer = timer1,
                            !.target = tgt, !.reorientT = T1,
                            !.orient = Spin(s, Rat(1, 2), t,
                                            q_slerp(Prev, tgt, T1))]

\* update_shape(s, dt); rs are the results of the calls of rand() the tick
\* makes, in call order: three for a new target when the tick starts a
\* reorientation (k counts them), then one when it completes one
update_shape(s, t, rs) ==
    LET hue1   == fmodf1(RAdd(s.hue, RMul(s.hueSpeed, t)))
        timer1 == RSub(s.reorientTimer, t)
        tgt    == IF s.reorientT = F(0) THEN SampleTarget(rs) ELSE s.target
        k      == IF s.reorientT = F(0) THEN 3 ELSE 0
        T1     == RAdd(s.reorientT, RDiv(t, s.reorientDur))
    IN  IF ~Reorienting(s, t)
        THEN [s EXCEPT !.hue = hue1, !.reorientTimer = timer1,
                       !.orient = Spin(s, F(1), t, Prev)]
        ELSE IF RLe(F(1), T1)
             THEN [s EXCEPT !.hue = hue1, !.target = tgt, !.reorientT = F(0),
                            !.reorientTimer =
                                frand_range(F(4), F(8), rs[k + 1]),
                            !.orient = Spin(s, F(1), t, tgt)]
             ELSE [s EXCEPT !.hue = hue1, !.reorientTimer = timer1,
                            !.target = tgt, !.reorientT = T1,
                            !.orient = Spin(s, Rat(1, 2), t,
                                            q_slerp(Prev, tgt, T1))]

\* float dt = (float)(now - last); if(dt>0.1f) dt=0.1f;
ClampDt(e) == IF RLt(Rat(1, 10), e) THEN Rat(1, 10) ELSE e

\* elapsed times between two frames: 0, ..., 0.1 and one value above 0.1
ElapsedSet == {Rat(k, 10 * DtSteps) : k \in 0 .. DtSteps + 1}

\* the values dt takes
DtSet == {ClampDt(e) : e \in ElapsedSet}

VARIABLES pc, list, monCount, createFail, scr, runtime, quadrantCount,
          start, count, mapIdx, closeFlag, dt, rnd, ui, w, di, frame,
          updated, drawn, seen, exitStatus, ini, geo

vars == <<pc, list, monCount, createFail, scr, runtime, quadrantCount,
          start, count, mapIdx, closeFlag, dt, rnd, ui, w, di, frame,
          updated, drawn, seen, exitStatus, ini, geo>>

\* ---------------------------------------------------------------- startup
\* a slip of the clamp: an index past the last monitor wraps to monitor 0
ClampScreen_wrap(idx, mc) == IF idx < 0 THEN 0
                             ELSE IF idx >= mc THEN 0 ELSE idx

\* int idx = screen; if(idx<0) idx=0; if(idx>=monCount) idx=monCount-1;
ClampScreen(idx, mc) == IF idx < 0 THEN 0
                        ELSE IF idx >= mc THEN mc - 1 ELSE idx

\* need[]: the monitors m with need[m] = 1 after the scan of the list
NeedSet(L, mc) ==
    LET used == {ClampScreen(L[i].screen, mc) : i \in 1 .. Len(L)}
    IN  IF used = {} THEN {0} ELSE used

\* a slip of the window creation loop: break instead of continue when
\* glfwCreateWindow fails
RECURSIVE CreateWindows_break(_, _, _, _)
CreateWindows_break(from, mc, need, fail) ==
    IF from >= mc THEN <<>>
    ELSE IF from \in need /\ from \in fail THEN <<>>
    ELSE IF from \in need
         THEN <<[monIndex |-> from]>>
                 \o CreateWindows_break(from + 1, mc, need, fail)
         ELSE CreateWindows_break(from + 1, mc, need, fail)

\* the window creation loop over m = from .. monCount-1: a ScreenWindow is
\* appended for every needed monitor whose glfwCreateWindow succeeds
RECURSIVE CreateWindows(_, _, _, _)
CreateWindows(from, mc, need, fail) ==
    IF from >= mc THEN <<>>
    ELSE IF from \in need /\ from \notin fail
         THEN <<[monIndex |-> from]>> \o CreateWindows(from + 1, mc, need, fail)
         ELSE CreateWindows(from + 1, mc, need, fail)

\* -------------------------------------------------------------- placement
\* anchor_to_ndc
anchor_to_ndc(a) ==
    CASE a = "POS_TL" -> <<F(-1), F(1)>>  [] a = "POS_TC" -> <<F(0), F(1)>>
      [] a = "POS_TR" -> <<F(1), F(1)>>   [] a = "POS_CL" -> <<F(-1), F(0)>>
      [] a = "POS_C"  -> <<F(0), F(0)>>   [] a = "POS_CR" -> <<F(1), F(0)>>
      [] a = "POS_BL" -> <<F(-1), F(-1)>> [] a = "POS_BC" -> <<F(0), F(-1)>>
      [] a = "POS_BR" -> <<F(1), F(-1)>>  [] OTHER -> <<F(0), F(0)>>

\* anchor_margin: the two tests of an axis run one after the other
MarginAxis(c, m) ==
    LET c1 == IF RLt(c, F(0)) THEN RAdd(c, m) ELSE c
    IN  IF RLt(F(0), c1) THEN RSub(c1, m) ELSE c1

MarginAxisY(c, m) ==
    LET c1 == IF RLt(F(0), c) THEN RSub(c, m) ELSE c
    IN  IF RLt(c1, F(0)) THEN RAdd(c1, m) ELSE c1

anchor_margin(a, m) == <<MarginAxis(a[1], m), MarginAxisY(a[2], m)>>

\* quadrantCount[mon][pos]: the table is zero-filled and kept as the map of
\* the cells written so far
QuadGet(qc, mon, pos) ==
    IF <<mon, pos>> \in DOMAIN qc THEN qc[<<mon, pos>>] ELSE 0

QuadInc(qc, mon, pos) ==
    [k \in DOMAIN qc \cup {<<mon, pos>>} |->
        IF k = <<mon, pos>> THEN QuadGet(qc, mon, pos) + 1 ELSE qc[k]]

\* a slip of the counter's key: every record counts in row 0
QuadMon_row0(sc, mc) == 0

\* the cell of quadrantCount that counts the record sc
QuadMon(sc, mc) == ClampScreen(sc.screen, mc)

\* a variant of the placement whose overlap offset leaves an axis with base
\* coordinate 0 alone, as the margin pull does
PlaceShape_strict(sc, qc, mc) ==
    LET mon == QuadMon(sc, mc)
        anc == anchor_to_ndc(sc.pos)
        pos == anchor_margin(anc, Rat(12, 100))
        qn  == QuadGet(qc, mon, sc.pos)
        off == RMul(Rat(5, 100), F(qn))
        px  == RAdd(pos[1], IF RLt(F(0), anc[1]) THEN RNeg(off)
                            ELSE IF RLt(anc[1], F(0)) THEN off ELSE F(0))
        py  == RAdd(pos[2], IF RLt(F(0), anc[2]) THEN RNeg(off)
                            ELSE IF RLt(anc[2], F(0)) THEN off ELSE F(0))
    IN  [pos |-> <<px, py>>, qc |-> QuadInc(qc, mon, sc.pos)]

\* the placement of one record: world position and the updated table
PlaceShape(sc, qc, mc) ==
    LET mon == QuadMon(sc, mc)
        anc == anchor_to_ndc(sc.pos)
        pos == anchor_margin(anc, Rat(12, 100))
        qn  == QuadGet(qc, mon, sc.pos)
        off == RMul(Rat(5, 100), F(qn))
        px  == RAdd(pos[1], IF RLe(F(0), anc[1]) THEN RNeg(off) ELSE off)
        py  == RAdd(pos[2], IF RLe(F(0), anc[2]) THEN RNeg(off) ELSE off)
    IN  [pos |-> <<px, py>>, qc |-> QuadInc(qc, mon, sc.pos)]

\* the runtime-building loop of main over records k .. list.count
RECURSIVE BuildRuntime(_, _, _, _, _)
BuildRuntime(L, k, qc, mc, ds) ==
    IF k > Len(L) THEN [runtime |-> <<>>, qc |-> qc]
    ELSE LET p    == PlaceShape(L[k], qc, mc)
             rest == BuildRuntime(L, k + 1, p.qc, mc, ds)
         IN  [runtime |-> <<NewRuntime(L[k], p.pos, ds[k])>> \o rest.runtime,
              qc      |-> rest.qc]

\* --------------------------------------------------------------- app_loop
\* a slip of the round robin: it starts at the second window
WindowOf_shifted(i, totalWindows) == (i + 1) % totalWindows

\* the window a shape index is counted and mapped to: i % totalWindows
WindowOf(i, totalWindows) == i % totalWindows

\* count[]: for(i) count[i%totalWindows]++
CountOf(n, W) ==
    [k \in 0 .. W - 1 |-> Cardinality({i \in 0 .. n - 1 : WindowOf(i, W) = k})]

\* start[]: start[i] = start[i-1] + count[i-1]
RECURSIVE StartAt(_, _)
StartAt(cnt, k) == IF k = 0 THEN 0 ELSE StartAt(cnt, k - 1) + cnt[k - 1]

StartOf(cnt, W) == [k \in 0 .. W - 1 |-> StartAt(cnt, k)]

\* mapIdx[]: for(i){ w=i%totalWindows; mapIdx[start[w]+placed[w]++]=i; }
\* from shape i on, with the placed[] and mapIdx[] filled so far
RECURSIVE FillMap(_, _, _, _, _, _)
FillMap(i, n, W, st, placed, m) ==
    IF i >= n THEN m
    ELSE LET ww == WindowOf(i, W)
         IN  FillMap(i + 1, n, W, st,
                     [placed EXCEPT ![ww] = @ + 1],
                     [m EXCEPT ![st[ww] + placed[ww]] = i])

MapIdxOf(n, W, st) ==
    FillMap(0, n, W, st, [k \in 0 .. W - 1 |-> 0], [k \in 0 .. n - 1 |-> -1])

\* a slip of the close check: anyOpen = !shouldClose(w), so that the last
\* window decides
AnyOpen_last(flags) == Len(flags) > 0 /\ ~flags[Len(flags)]

\* anyOpen: some window's glfwWindowShouldClose is still false
AnyOpen(flags) == \E k \in 1 .. Len(flags) : ~flags[k]

\* a variant of draw_shape that stores the hue color_for computes
draw_shape_stores(s) == [s EXCEPT !.hue = fmodf1(RAdd(s.hue, s.hueSpeed))]

\* draw_shape takes const ShapeRuntime*: it reads the record
draw_shape(s) == s

\* ------------------------------------------------- one shape, many ticks
DefaultConfig == [shape |-> "SH_CUBE", color |-> "COL_GREEN",
                  pos |-> "POS_C", screen |-> 0]

InitAnim ==
    /\ pc = "anim"
    /\ list = <<DefaultConfig>>
    /\ monCount = 1
    /\ createFail = {}
    /\ scr = <<>>
    /\ \E d \in DrawRec :
          runtime = <<NewRuntime(DefaultConfig, <<F(0), F(0)>>, d)>>
    /\ quadrantCount = <<>>
    /\ start = <<>> /\ count = <<>> /\ mapIdx = <<>>
    /\ closeFlag = <<>>
    /\ dt = F(0)
    /\ rnd = <<>>
    /\ ui = 0 /\ w = 0 /\ di = 0 /\ frame = 0
    /\ updated = <<0>>
    /\ drawn = <<>>
    /\ seen = <<>>
    /\ exitStatus = -1
    /\ ini = <<>>
    /\ geo = <<>>

\* one call update_shape(&runtime[0], dt) with the frame's clamped dt; rnd
\* keeps what rand() had to offer to a tick that completed a reorientation
Tick ==
    /\ pc = "anim"
    /\ \E t \in DtSet :
       \E rs \in RandOffer(runtime[1], t) :
          /\ dt' = t
          /\ runtime' = <<update_shape(runtime[1], t, rs)>>
          /\ rnd' = rs
    /\ updated' = <<1>>
    /\ UNCHANGED <<ini, geo, seen, pc, list, monCount, createFail, scr, quadrantCount,
                   start, count, mapIdx, closeFlag, ui, w, di, frame,
                   drawn, exitStatus>>

SpecAnim == InitAnim /\ [][Tick]_vars

\* ------------------------------------- one shape, its spin and its target
\* the creation draws of the spin specification: rand() returns 0, and
\* RandMax for the hue speed
SpinDraws == {[hue |-> 0, hueSpeed |-> RandMax, timer |-> 0, dur |-> 0,
               target |-> <<0, 0, 0>>, spinY |-> 0, spinX |-> 0]}

\* the results of the next four calls of rand() offered to a tick of a
\* reorientation: rand() repeats one value
SpinSeq == {<<a, a, a, a>> : a \in RandSet}

SpinOffer(s, t) == IF Reorienting(s, t) THEN SpinSeq ELSE {<<>>}

InitSpin ==
    /\ pc = "spin"
    /\ list = <<DefaultConfig>>
    /\ monCount = 1
    /\ createFail = {}
    /\ scr = <<>>
    /\ \E d \in SpinDraws :
          runtime = <<NewRuntime(DefaultConfig, <<F(0), F(0)>>, d)>>
    /\ quadrantCount = <<>>
    /\ start = <<>> /\ count = <<>> /\ mapIdx = <<>>
    /\ closeFlag = <<>>
    /\ dt = F(0)
    /\ rnd = <<>>
    /\ ui = 0 /\ w = 0 /\ di = 0 /\ frame = 0
    /\ updated = <<0>>
    /\ drawn = <<>>
    /\ seen = <<>>
    /\ exitStatus = -1
    /\ ini = <<>>
    /\ geo = <<>>

\* one call update_shape(&runtime[0], dt) with the frame's clamped dt; rnd
\* keeps what rand() had to offer to the tick
SpinTick ==
    /\ pc = "spin"
    /\ \E t \in DtSet :
       \E rs \in SpinOffer(runtime[1], t) :
          /\ dt' = t
          /\ runtime' = <<update_shape(runtime[1], t, rs)>>
          /\ rnd' = rs
    /\ updated' = <<1>>
    /\ UNCHANGED <<ini, geo, seen, pc, list, monCount, createFail, scr,
                   quadrantCount, start, count, mapIdx, closeFlag, ui, w, di,
                   frame, drawn, exitStatus>>

SpecSpin == InitSpin /\ [][SpinTick]_vars

\* ------------------------------------------------------------ the program
\* the anchors and the records the program model reads from its list
MainAnchors == {"POS_TL"}

MainConfigs == [shape : {"SH_CUBE"}, color : {"COL_GREEN"},
                pos : MainAnchors, screen : -1 .. MaxMon]

\* the creation draws of the program model: rand() returns one of its two
\* extreme values throughout the building loop
MainDraws == {[hue |-> r, hueSpeed |-> r, timer |-> r, dur |-> r,
               target |-> <<r, r, r>>, spinY |-> r, spinX |-> r] :
                 r \in {0, RandMax}}

\* the values dt takes in the program model: every frame takes 0.1 s or more
MainDts == {ClampDt(Rat(DtSteps + 1, 10 * DtSteps))}

ListsUpTo(n) == UNION {[1 .. k -> MainConfigs] : k \in 1 .. n}

Init ==
    /\ pc = "main"
    /\ list \in ListsUpTo(MaxShapes)
    /\ monCount \in 0 .. MaxMon
    /\ createFail = {}
    /\ scr = <<>>
    /\ runtime = <<>>
    /\ quadrantCount = <<>>
    /\ start = <<>> /\ count = <<>> /\ mapIdx = <<>>
    /\ closeFlag = <<>>
    /\ dt = F(0)
    /\ rnd = <<>>
    /\ ui = 0 /\ w = 0 /\ di = 0 /\ frame = 0
    /\ updated = <<>>
    /\ drawn = <<>>
    /\ seen = <<>>
    /\ exitStatus = -1
    /\ ini = <<>>
    /\ geo = <<>>

\* main up to the test of scr.count: monitors, need[], window creation;
\* createFail are the needed monitors whose glfwCreateWindow returns NULL
\* (glfwInit is taken to succeed)
MainWindows ==
    /\ pc = "main"
    /\ IF monCount <= 0
       THEN /\ pc' = "exit" /\ exitStatus' = 1
            /\ UNCHANGED <<scr, createFail>>
       ELSE \E fail \in SUBSET NeedSet(list, monCount) :
            LET wins == CreateWindows(0, monCount, NeedSet(list, monCount),
                                      fail)
            IN  /\ createFail' = fail
                /\ scr' = wins
                /\ IF Len(wins) = 0
                   THEN pc' = "exit" /\ exitStatus' = 1
                   ELSE pc' = "build" /\ UNCHANGED exitStatus
    /\ UNCHANGED <<ini, geo, seen, list, monCount, runtime, quadrantCount,
                   start, count, mapIdx, closeFlag, dt, rnd, ui, w, di,
                   frame, updated, drawn>>

\* main: the loop that builds the runtime objects
MainBuild ==
    /\ pc = "build"
    /\ \E d \in MainDraws :
          LET b == BuildRuntime(list, 1, <<>>, monCount,
                                [k \in 1 .. Len(list) |-> d])
          IN  /\ runtime' = b.runtime
              /\ quadrantCount' = b.qc
    /\ pc' = "loop_setup"
    /\ UNCHANGED <<ini, geo, seen, list, monCount, createFail, scr, start, count, mapIdx,
                   closeFlag, dt, rnd, ui, w, di, frame, updated, drawn,
                   exitStatus>>

\* app_loop before the while: count[], start[], mapIdx[]; no window has a
\* close request before the first glfwPollEvents
LoopSetup ==
    /\ pc = "loop_setup"
    /\ LET W   == Len(scr)
           n   == Len(runtime)
           cnt == CountOf(n, W)
           st  == StartOf(cnt, W)
       IN  /\ count' = cnt
           /\ start' = st
           /\ mapIdx' = MapIdxOf(n, W, st)
           /\ closeFlag' = [k \in 1 .. W |-> FALSE]
           /\ updated' = [k \in 1 .. n |-> 0]
    /\ pc' = "check"
    /\ UNCHANGED <<ini, geo, seen, list, monCount, createFail, scr, runtime, quadrantCount,
                   dt, rnd, ui, w, di, frame, drawn, exitStatus>>

\* top of the while: the close check, then the frame's dt
FrameCheck ==
    /\ pc = "check"
    /\ IF ~AnyOpen(closeFlag)
       THEN /\ pc' = "return"
            /\ UNCHANGED <<dt, ui, frame, updated, drawn>>
       ELSE /\ frame < MaxFrames
            /\ dt' \in MainDts
            /\ pc' = "update"
            /\ ui' = 0
            /\ frame' = frame + 1
            /\ updated' = [k \in 1 .. Len(runtime) |-> 0]
            /\ drawn' = <<>>
    /\ UNCHANGED <<ini, geo, seen, list, monCount, createFail, scr, runtime, quadrantCount,
                   start, count, mapIdx, closeFlag, rnd, w, di, exitStatus>>

\* one iteration of for(i) update_shape(&runtime[i], dt); the last one
\* falls through to the first window's draw
UpdateOne ==
    /\ pc = "update"
    /\ ui < Len(runtime)
    /\ \E rs \in RandOffer(runtime[ui + 1], dt) :
          /\ runtime' = [runtime EXCEPT
                            ![ui + 1] = update_shape(runtime[ui + 1], dt, rs)]
          /\ rnd' = rs
    /\ updated' = [updated EXCEPT ![ui + 1] = @ + 1]
    /\ ui' = ui + 1
    /\ IF ui + 1 < Len(runtime)
       THEN UNCHANGED <<pc, w, di>>
       ELSE pc' = "draw" /\ w' = 0 /\ di' = 0
    /\ UNCHANGED <<ini, geo, seen, list, monCount, createFail, scr, quadrantCount, start,
                   count, mapIdx, closeFlag, dt, frame, drawn, exitStatus>>

\* one iteration of for(i<count[w]) draw_shape(&runtime[mapIdx[start[w]+i]])
DrawShape ==
    /\ pc = "draw"
    /\ di < count[w]
    /\ LET idx == mapIdx[start[w] + di]
       IN  /\ runtime' = [runtime EXCEPT ![idx + 1] = draw_shape(@)]
           /\ drawn' = Append(drawn, [w |-> w, idx |-> idx])
    /\ di' = di + 1
    /\ UNCHANGED <<ini, geo, seen, pc, list, monCount, createFail, scr, quadrantCount, start,
                   count, mapIdx, closeFlag, dt, rnd, ui, w, frame, updated,
                   exitStatus>>

\* glfwSwapBuffers of window w, then the next window or the poll
SwapBuffers ==
    /\ pc = "draw"
    /\ di >= count[w]
    /\ IF w + 1 < Len(scr)
       THEN w' = w + 1 /\ di' = 0 /\ UNCHANGED pc
       ELSE pc' = "poll" /\ UNCHANGED <<w, di>>
    /\ UNCHANGED <<ini, geo, seen, list, monCount, createFail, scr, runtime, quadrantCount,
                   start, count, mapIdx, closeFlag, dt, rnd, ui, frame,
                   updated, drawn, exitStatus>>

\* glfwPollEvents: close requests arrive for any of the windows
PollEvents ==
    /\ pc = "poll"
    /\ \E req \in SUBSET (1 .. Len(scr)) :
          closeFlag' = [k \in 1 .. Len(scr) |-> closeFlag[k] \/ k \in req]
    /\ pc' = "check"
    /\ UNCHANGED <<ini, geo, seen, list, monCount, createFail, scr, runtime, quadrantCount,
                   start, count, mapIdx, dt, rnd, ui, w, di, frame, updated,
                   drawn, exitStatus>>

\* main after app_loop returns: everything is released, return 0
MainExit ==
    /\ pc = "return"
    /\ pc' = "exit"
    /\ exitStatus' = 0
    /\ runtime' = <<>>
    /\ scr' = <<>>
    /\ list' = <<>>
    /\ UNCHANGED <<ini, geo, seen, monCount, createFail, quadrantCount, start, count,
                   mapIdx, closeFlag, dt, rnd, ui, w, di, frame, updated,
                   drawn>>

Next == \/ MainWindows \/ MainBuild \/ LoopSetup \/ FrameCheck \/ UpdateOne
        \/ DrawShape \/ SwapBuffers \/ PollEvents \/ MainExit

Spec == Init /\ [][Next]_vars

\* --------------------------------------------- the placement, record by
\* record: the body of the building loop applied to whatever record comes
\* next in the list
PlaceConfigs == [shape : {"SH_CUBE"}, color : {"COL_GREEN"},
                 pos : Anchors, screen : -1 .. MaxMon]

InitPlace ==
    /\ pc = "place"
    /\ list = <<>>
    /\ monCount \in 1 .. MaxMon
    /\ createFail = {}
    /\ scr = <<>>
    /\ runtime = <<>>
    /\ quadrantCount = <<>>
    /\ start = <<>> /\ count = <<>> /\ mapIdx = <<>>
    /\ closeFlag = <<>>
    /\ dt = F(0)
    /\ rnd = <<>>
    /\ ui = 0 /\ w = 0 /\ di = 0 /\ frame = 0
    /\ updated = <<>>
    /\ drawn = <<>>
    /\ seen = <<>>
    /\ exitStatus = -1
    /\ ini = <<>>
    /\ geo = <<>>

\* the creation draws of the placement model: rand() returns 0
PlaceDraws == {[hue |-> 0, hueSpeed |-> 0, timer |-> 0, dur |-> 0,
                target |-> <<0, 0, 0>>, spinY |-> 0, spinX |-> 0]}

\* one iteration of the building loop; list and runtime hold the record
\* just read and the object just built, seen is the bag of the (monitor,
\* anchor) pairs of the records read so far
PlaceNext ==
    /\ pc = "place"
    /\ BagCardinality(seen) < MaxPlaced
    /\ \E sc \in PlaceConfigs, d \in PlaceDraws :
          LET p   == PlaceShape(sc, quadrantCount, monCount)
              mon == IF sc.screen < 0 THEN 0
                     ELSE IF sc.screen > monCount - 1 THEN monCount - 1
                     ELSE sc.screen
          IN  /\ list' = <<sc>>
              /\ runtime' = <<NewRuntime(sc, p.pos, d)>>
              /\ quadrantCount' = p.qc
              /\ seen' = seen (+) SetToBag({<<mon, sc.pos>>})
    /\ UNCHANGED <<ini, geo, pc, monCount, createFail, scr, start, count,
                   mapIdx, closeFlag, dt, rnd, ui, w, di, frame, updated,
                   drawn, exitStatus>>

SpecPlace == InitPlace /\ [][PlaceNext]_vars

\* ------------------------------------------------------------- load_ini
\* A line of the file is the sequence of its tokens after trim: the
\* punctuation "=", "[", "]", "," and "#", and words.  Letter case, quotes
\* and the blanks around a word are not modelled.
SHAPE_NAMES == <<"CUBE", "SPHERE", "PYRAMID", "TORUS", "OCTAHEDRON">>
COLOR_NAMES == <<"GREEN", "YELLOW", "RED", "BLUE", "CYAN", "PINK", "ORANGE",
                 "PURPLE", "RANDOM">>
POS_NAMES == <<"TOP-LEFT", "TOP-CENTER", "TOP-RIGHT", "CENTER-LEFT", "CENTER",
               "CENTER-RIGHT", "BOTTOM-LEFT", "BOTTOM-CENTER", "BOTTOM-RIGHT">>

\* the enumerators in the order of their values
ShapeEnum == <<"SH_CUBE", "SH_SPHERE", "SH_PYRAMID", "SH_TORUS", "SH_OCT">>
ColorEnum == <<"COL_GREEN", "COL_YELLOW", "COL_RED", "COL_BLUE", "COL_CYAN",
               "COL_PINK", "COL_ORANGE", "COL_PURPLE", "COL_RANDOM">>
PosEnum == <<"POS_TL", "POS_TC", "POS_TR", "POS_CL", "POS_C", "POS_CR",
             "POS_BL", "POS_BC", "POS_BR">>

\* for(i) if(ieq(s,NAMES[i])) return i; return -1;  s is a run of tokens and
\* equals a name when it is that one word
ParseName(s, names) ==
    IF \E i \in 1 .. Len(names) : s = <<names[i]>>
    THEN (CHOOSE i \in 1 .. Len(names) :
             /\ s = <<names[i]>>
             /\ \A j \in 1 .. i - 1 : s # <<names[j]>>) - 1
    ELSE -1

parse_color(s) == ParseName(s, COLOR_NAMES)
parse_shape(s) == ParseName(s, SHAPE_NAMES)
parse_pos(s) == ParseName(s, POS_NAMES)

\* atoi: the leading number of the field, 0 when there is none
atoi(s) ==
    IF s = <<>> THEN 0
    ELSE CASE s[1] = "0" -> 0 [] s[1] = "1" -> 1 [] s[1] = "2" -> 2
           [] s[1] = "-1" -> -1 [] OTHER -> 0

\* strchr from position from on: the first position of c, 0 for NULL
RECURSIVE strchr(_, _, _)
strchr(p, from, c) ==
    IF from > Len(p) THEN 0
    ELSE IF p[from] = c THEN from ELSE strchr(p, from + 1, c)

\* the successive results of strtok(inside, ","): the non-empty runs of
\* tokens between commas; cur is the run under construction
RECURSIVE strtok(_, _, _)
strtok(inside, k, cur) ==
    IF k > Len(inside)
    THEN IF cur = <<>> THEN <<>> ELSE <<cur>>
    ELSE IF inside[k] = ","
         THEN (IF cur = <<>> THEN <<>> ELSE <<cur>>)
                 \o strtok(inside, k + 1, <<>>)
         ELSE strtok(inside, k + 1, Append(cur, inside[k]))

\* a variant of the body of the while loop that wants exactly three fields
ParseLine_exact3(p) ==
    IF p = <<>> \/ p[1] = "#" THEN <<>>
    ELSE LET eq == strchr(p, 1, "=")
         IN  IF eq = 0 THEN <<>>
             ELSE LET lhs == SubSeq(p, 1, eq - 1)
                      lb  == strchr(p, eq, "[")
                      rb  == strchr(p, eq, "]")
                  IN  IF lb = 0 \/ rb = 0 \/ rb < lb THEN <<>>
                      ELSE LET toks == strtok(SubSeq(p, lb + 1, rb - 1), 1,
                                              <<>>)
                           IN  IF Len(toks) # 3 THEN <<>>
                               ELSE LET sh == parse_shape(lhs)
                                        co == parse_color(toks[1])
                                        po == parse_pos(toks[2])
                                        sc == atoi(toks[3])
                                    IN  IF sh < 0 \/ co < 0 \/ po < 0
                                        THEN <<>>
                                        ELSE <<[shape  |-> ShapeEnum[sh + 1],
                                                color  |-> ColorEnum[co + 1],
                                                pos    |-> PosEnum[po + 1],
                                                screen |-> sc]>>

\* the body of the while loop of load_ini for the trimmed line p: the
\* records it appends to L, none when the line is passed over
ParseLine(p) ==
    IF p = <<>> \/ p[1] = "#" THEN <<>>
    ELSE LET eq == strchr(p, 1, "=")
         IN  IF eq = 0 THEN <<>>
             ELSE LET lhs == SubSeq(p, 1, eq - 1)
                      lb  == strchr(p, eq, "[")
                      rb  == strchr(p, eq, "]")
                  IN  IF lb = 0 \/ rb = 0 \/ rb < lb THEN <<>>
                      ELSE LET toks == strtok(SubSeq(p, lb + 1, rb - 1), 1,
                                              <<>>)
                           IN  IF Len(toks) < 3 THEN <<>>
                               ELSE LET sh == parse_shape(lhs)
                                        co == parse_color(toks[1])
                                        po == parse_pos(toks[2])
                                        sc == atoi(toks[3])
                                    IN  IF sh < 0 \/ co < 0 \/ po < 0
                                        THEN <<>>
                                        ELSE <<[shape  |-> ShapeEnum[sh + 1],
                                                color  |-> ColorEnum[co + 1],
                                                pos    |-> PosEnum[po + 1],
                                                screen |-> sc]>>

\* the lines the files of the model are made of
GoodLines ==
    {<<"CUBE", "=", "[", "RED", ",", "CENTER", ",", "0", "]">>,
     <<"SPHERE", "=", "[", "BLUE", ",", "TOP-LEFT", ",", "1", "]">>}

BadLines ==
    {<<"CUBE", "[", "RED", ",", "CENTER", ",", "0", "]">>,
     <<"CUBE", "=", "RED", ",", "CENTER", ",", "0", "]">>,
     <<"CUBE", "=", "[", "RED", ",", "CENTER", ",", "0">>,
     <<"CUBE", "=", "]", "RED", ",", "CENTER", ",", "0", "[">>,
     <<"BAD", "=", "[", "RED", "]">>,
     <<"CUBE", "=", "[", "RED", ",", "CENTER", "]">>,
     <<"TORUS", "=", "[", "RED", ",", "CENTER", ",", "0", ",", "1", "]">>,
     <<"PYRAMID", "=", "[", "RED", ",", ",", "CENTER", ",", "2", "]">>,
     <<"BAD", "=", "[", "RED", ",", "CENTER", ",", "0", "]">>,
     <<"CUBE", "=", "[", "MAUVE", ",", "CENTER", ",", "0", "]">>,
     <<"CUBE", "=", "[", "RED", ",", "MIDDLE", ",", "0", "]">>}

IgnoredLines == {<<>>, <<"#", "CUBE", "=", "[", "RED", "]">>}

IniLines == GoodLines \cup BadLines \cup IgnoredLines

IniFiles == UNION {[1 .. k -> IniLines] : k \in 0 .. MaxLines}

\* ini: the file (exists = fopen succeeds), the position of load_ini, the
\* number of lines fgets has returned and the list L
InitIni ==
    /\ pc = "ini"
    /\ list = <<>>
    /\ monCount = 1
    /\ createFail = {}
    /\ scr = <<>>
    /\ runtime = <<>>
    /\ quadrantCount = <<>>
    /\ start = <<>> /\ count = <<>> /\ mapIdx = <<>>
    /\ closeFlag = <<>>
    /\ dt = F(0)
    /\ rnd = <<>>
    /\ ui = 0 /\ w = 0 /\ di = 0 /\ frame = 0
    /\ updated = <<>>
    /\ drawn = <<>>
    /\ seen = <<>>
    /\ exitStatus = -1
    /\ \E f \in IniFiles, e \in BOOLEAN :
          ini = [at |-> "fopen", exists |-> e, file |-> f, read |-> 0,
                 L |-> <<>>]
    /\ geo = <<>>

\* fopen: without the file load_ini returns the default record
IniOpen ==
    /\ pc = "ini" /\ ini.at = "fopen"
    /\ ini' = IF ini.exists
              THEN [ini EXCEPT !.at = "fgets"]
              ELSE [ini EXCEPT !.at = "return", !.L = <<DefaultConfig>>]
    /\ UNCHANGED <<pc, list, monCount, createFail, scr, runtime,
                   quadrantCount, start, count, mapIdx, closeFlag, dt, rnd,
                   ui, w, di, frame, updated, drawn, seen, exitStatus, geo>>

\* one iteration of while(fgets(...))
IniLine ==
    /\ pc = "ini" /\ ini.at = "fgets"
    /\ ini.read < Len(ini.file)
    /\ ini' = [ini EXCEPT !.read = @ + 1,
                          !.L = @ \o ParseLine(ini.file[ini.read + 1])]
    /\ UNCHANGED <<pc, list, monCount, createFail, scr, runtime,
                   quadrantCount, start, count, mapIdx, closeFlag, dt, rnd,
                   ui, w, di, frame, updated, drawn, seen, exitStatus, geo>>

\* fgets returns NULL: fclose, the default record for an empty L, return;
\* main keeps the result in list
IniClose ==
    /\ pc = "ini" /\ ini.at = "fgets"
    /\ ini.read >= Len(ini.file)
    /\ ini' = [ini EXCEPT !.at = "return",
                          !.L = IF Len(@) = 0 THEN <<DefaultConfig>> ELSE @]
    /\ UNCHANGED <<pc, list, monCount, createFail, scr, runtime,
                   quadrantCount, start, count, mapIdx, closeFlag, dt, rnd,
                   ui, w, di, frame, updated, drawn, seen, exitStatus, geo>>

\* ShapeList list = load_ini(iniPath);
IniReturn ==
    /\ pc = "ini" /\ ini.at = "return"
    /\ list' = ini.L
    /\ pc' = "main"
    /\ UNCHANGED <<monCount, createFail, scr, runtime, quadrantCount, start,
                   count, mapIdx, closeFlag, dt, rnd, ui, w, di, frame,
                   updated, drawn, seen, exitStatus, ini, geo>>

IniNext == IniOpen \/ IniLine \/ IniClose \/ IniReturn

SpecIni == InitIni /\ [][IniNext]_vars

\* ------------------------------------------------------------- geometry
\* A mesh under construction is [vi, e, ...]: the number of vertices written
\* and the index array e[0..ei-1] as a sequence; vertex coordinates are not
\* modelled.  For positive segment counts no index expression goes below 0,
\* so the unsigned conversions leave the values as they are.

\* WireGeom g: vcount, lcount = ei/2 and the index pairs
WireGeom(vcount, e) == [vcount |-> vcount, lcount |-> Len(e) \div 2,
                        lines |-> e]

make_cube ==
    WireGeom(8, <<0,1,1,2,2,3,3,0, 4,5,5,6,6,7,7,4, 0,4,1,5,2,6,3,7>>)

make_pyramid == WireGeom(5, <<0,1,1,2,2,3,3,0, 0,4,1,4,2,4,3,4>>)

make_octahedron ==
    WireGeom(6, <<0,1,0,2,0,3,0,4, 1,2,2,3,3,4,4,1, 5,1,5,2,5,3,5,4>>)

\* make_sphere, latitude ring: for(j<seg){ v[vi++]; if(j>0) edge
\* (first_idx+j-1, first_idx+j) }
RECURSIVE LatRing(_, _, _, _)
LatRing(g, first_idx, j, seg) ==
    IF j >= seg THEN g
    ELSE LatRing([g EXCEPT !.vi = @ + 1,
                           !.e  = IF j > 0
                                  THEN @ \o <<first_idx + j - 1, first_idx + j>>
                                  ELSE @],
                 first_idx, j + 1, seg)

\* e[ei++]=first_idx + seg-1; e[ei++]=first_idx; // close ring
LatClose(g, first_idx, seg) ==
    [g EXCEPT !.e = @ \o <<first_idx + seg - 1, first_idx>>]

\* an open polyline: for(k<segments){ v[vi++]; if(k>0) edge (vi-2, vi-1) }
RECURSIVE Polyline(_, _, _)
Polyline(g, k, segments) ==
    IF k >= segments THEN g
    ELSE Polyline([g EXCEPT !.vi = @ + 1,
                            !.e  = IF k > 0 THEN @ \o <<g.vi - 1, g.vi>>
                                   ELSE @],
                  k + 1, segments)

\* a slip of the closing edge of an extra ring: it starts one past the last
\* vertex
ExtraClose_next(g, first) == [g EXCEPT !.e = @ \o <<g.vi, first>>]

\* e[ei++]=vi-1; e[ei++]=first;
ExtraClose(g, first) == [g EXCEPT !.e = @ \o <<g.vi - 1, first>>]

\* the capacity of the vertex buffer of make_sphere
SphereMaxV(lat, lon) == (lat + 1) * (lon + 1) + (lat + lon) * 64

\* if(majorSeg>128) majorSeg=128;
ClampSeg(n) == IF n > 128 THEN 128 ELSE n

\* make_torus, row i of the first loops: v[vi]=...; idx[i][j]=vi; vi++;
\* idx[i][j] is kept as the entry j+1 of the row i+1
RECURSIVE TorusRow(_, _, _, _)
TorusRow(g, i, j, minorSeg) ==
    IF j >= minorSeg THEN g
    ELSE TorusRow([g EXCEPT !.vi  = @ + 1,
                            !.idx = IF j = 0 THEN Append(@, <<g.vi>>)
                                    ELSE [@ EXCEPT ![i + 1] = Append(@, g.vi)]],
                  i, j + 1, minorSeg)

\* make_torus, row i of the second loops: the major and the minor edge of
\* every cell (i, j)
RECURSIVE TorusRowEdges(_, _, _, _, _)
TorusRowEdges(g, i, j, majorSeg, minorSeg) ==
    IF j >= minorSeg THEN g
    ELSE LET i2 == (i + 1) % majorSeg
             j2 == (j + 1) % minorSeg
             a  == g.idx[i + 1][j + 1]
             b  == g.idx[i2 + 1][j + 1]
             c  == g.idx[i + 1][j2 + 1]
         IN  TorusRowEdges([g EXCEPT !.e = @ \o <<a, b, a, c>>],
                           i, j + 1, majorSeg, minorSeg)

\* the call main makes for a record of the shape kind sh
MainGeomCall(sh) ==
    CASE sh = "SH_CUBE"    -> [fn |-> "make_cube", a |-> 0, b |-> 0]
      [] sh = "SH_PYRAMID" -> [fn |-> "make_pyramid", a |-> 0, b |-> 0]
      [] sh = "SH_OCT"     -> [fn |-> "make_octahedron", a |-> 0, b |-> 0]
      [] sh = "SH_SPHERE"  -> [fn |-> "make_sphere", a |-> 10, b |-> 16]
      [] sh = "SH_TORUS"   -> [fn |-> "make_torus", a |-> 32, b |-> 12]
      [] OTHER             -> [fn |-> "make_cube", a |-> 0, b |-> 0]

\* the calls tried: those of main and every sphere and torus with segment
\* counts 1 .. MaxSeg
GeomCalls ==
    {MainGeomCall(sh) : sh \in ShapeKinds}
       \cup [fn : {"make_sphere", "make_torus"}, a : 1 .. MaxSeg,
             b : 1 .. MaxSeg]

\* geo: the call, the position in it (at), the counter of the running outer
\* loop (i), the mesh under construction (vi, e, idx) and the returned
\* mesh (g)
InitGeom ==
    /\ pc = "geom"
    /\ list = <<>>
    /\ monCount = 1
    /\ createFail = {}
    /\ scr = <<>>
    /\ runtime = <<>>
    /\ quadrantCount = <<>>
    /\ start = <<>> /\ count = <<>> /\ mapIdx = <<>>
    /\ closeFlag = <<>>
    /\ dt = F(0)
    /\ rnd = <<>>
    /\ ui = 0 /\ w = 0 /\ di = 0 /\ frame = 0
    /\ updated = <<>>
    /\ drawn = <<>>
    /\ seen = <<>>
    /\ exitStatus = -1
    /\ ini = <<>>
    /\ \E c \in GeomCalls :
          geo = [at |-> "call", call |-> c, i |-> 0, vi |-> 0, e |-> <<>>,
                 idx |-> <<>>, g |-> WireGeom(0, <<>>)]

\* make_cube, make_pyramid, make_octahedron
GeomFixed ==
    /\ pc = "geom" /\ geo.at = "call"
    /\ geo.call.fn \in {"make_cube", "make_pyramid", "make_octahedron"}
    /\ geo' = [geo EXCEPT !.at = "done",
                          !.g = CASE geo.call.fn = "make_cube" -> make_cube
                                  [] geo.call.fn = "make_pyramid"
                                        -> make_pyramid
                                  [] geo.call.fn = "make_octahedron"
                                        -> make_octahedron]
    /\ UNCHANGED <<pc, list, monCount, createFail, scr, runtime,
                   quadrantCount, start, count, mapIdx, closeFlag, dt, rnd,
                   ui, w, di, frame, updated, drawn, seen, exitStatus, ini>>

\* make_sphere and make_torus up to their first loop; the torus clamps its
\* segment counts
GeomBegin ==
    /\ pc = "geom" /\ geo.at = "call"
    /\ geo.call.fn \in {"make_sphere", "make_torus"}
    /\ geo' = IF geo.call.fn = "make_sphere"
              THEN [geo EXCEPT !.at = "lat", !.i = 1]
              ELSE [geo EXCEPT !.at = "verts", !.i = 0,
                               !.call.a = ClampSeg(@),
                               !.call.b = ClampSeg(@)]
    /\ UNCHANGED <<pc, list, monCount, createFail, scr, runtime,
                   quadrantCount, start, count, mapIdx, closeFlag, dt, rnd,
                   ui, w, di, frame, updated, drawn, seen, exitStatus, ini>>

\* make_sphere: one iteration of for(i=1;i<lat;i++), or the loop's exit
SphereLat ==
    /\ pc = "geom" /\ geo.at = "lat"
    /\ geo' = IF geo.i < geo.call.a
              THEN LET first_idx == geo.vi
                       seg       == geo.call.b
                   IN  [LatClose(LatRing(geo, first_idx, 0, seg),
                                 first_idx, seg)
                           EXCEPT !.i = @ + 1]
              ELSE [geo EXCEPT !.at = "lon", !.i = 0]
    /\ UNCHANGED <<pc, list, monCount, createFail, scr, runtime,
                   quadrantCount, start, count, mapIdx, closeFlag, dt, rnd,
                   ui, w, di, frame, updated, drawn, seen, exitStatus, ini>>

\* make_sphere: one iteration of for(j<lon), a pole-to-pole polyline of
\* lat*2 points, or the loop's exit
SphereLon ==
    /\ pc = "geom" /\ geo.at = "lon"
    /\ geo' = IF geo.i < geo.call.b
              THEN [Polyline(geo, 0, geo.call.a * 2) EXCEPT !.i = @ + 1]
              ELSE [geo EXCEPT !.at = "extra", !.i = 0]
    /\ UNCHANGED <<pc, list, monCount, createFail, scr, runtime,
                   quadrantCount, start, count, mapIdx, closeFlag, dt, rnd,
                   ui, w, di, frame, updated, drawn, seen, exitStatus, ini>>

\* make_sphere: one iteration of for(r<extra), a closed ring of lon*2
\* points, or the loop's exit
SphereExtra ==
    /\ pc = "geom" /\ geo.at = "extra"
    /\ geo' = IF geo.i < 3
              THEN LET first == geo.vi
                   IN  [ExtraClose(Polyline(geo, 0, geo.call.b * 2), first)
                           EXCEPT !.i = @ + 1]
              ELSE [geo EXCEPT !.at = "return"]
    /\ UNCHANGED <<pc, list, monCount, createFail, scr, runtime,
                   quadrantCount, start, count, mapIdx, closeFlag, dt, rnd,
                   ui, w, di, frame, updated, drawn, seen, exitStatus, ini>>

\* make_torus: one iteration of the first for(i<majorSeg), or its exit
TorusVerts ==
    /\ pc = "geom" /\ geo.at = "verts"
    /\ geo' = IF geo.i < geo.call.a
              THEN [TorusRow(geo, geo.i, 0, geo.call.b) EXCEPT !.i = @ + 1]
              ELSE [geo EXCEPT !.at = "edges", !.i = 0]
    /\ UNCHANGED <<pc, list, monCount, createFail, scr, runtime,
                   quadrantCount, start, count, mapIdx, closeFlag, dt, rnd,
                   ui, w, di, frame, updated, drawn, seen, exitStatus, ini>>

\* make_torus: one iteration of the second for(i<majorSeg), or its exit
TorusEdges ==
    /\ pc = "geom" /\ geo.at = "edges"
    /\ geo' = IF geo.i < geo.call.a
              THEN [TorusRowEdges(geo, geo.i, 0, geo.call.a, geo.call.b)
                       EXCEPT !.i = @ + 1]
              ELSE [geo EXCEPT !.at = "return"]
    /\ UNCHANGED <<pc, list, monCount, createFail, scr, runtime,
                   quadrantCount, start, count, mapIdx, closeFlag, dt, rnd,
                   ui, w, di, frame, updated, drawn, seen, exitStatus, ini>>

\* g.vcount=vi; g.lcount=ei/2; return g;
GeomReturn ==
    /\ pc = "geom" /\ geo.at = "return"
    /\ geo' = [geo EXCEPT !.at = "done", !.g = WireGeom(geo.vi, geo.e)]
    /\ UNCHANGED <<pc, list, monCount, createFail, scr, runtime,
                   quadrantCount, start, count, mapIdx, closeFlag, dt, rnd,
                   ui, w, di, frame, updated, drawn, seen, exitStatus, ini>>

GeomNext == \/ GeomFixed \/ GeomBegin \/ SphereLat \/ SphereLon
            \/ SphereExtra \/ TorusVerts \/ TorusEdges \/ GeomReturn

SpecGeom == InitGeom /\ [][GeomNext]_vars

\* ----------------------------------------------------- animation claims
\* the shape of the one-shape specification
S1 == runtime[1]

\* C4: at the end of every tick reorientT lies in [0,1], and a tick whose
\* advanced progress reorientT + dt/reorientDur reaches or exceeds 1 ends
\* with reorientT = 0.
C4_ProgressInUnitInterval ==
    /\ [](pc = "anim" => RLe(F(0), S1.reorientT) /\ RLe(S1.reorientT, F(1)))
    /\ [][pc = "anim" /\ Reorienting(S1, dt')
          /\ RLe(F(1), RAdd(S1.reorientT, RDiv(dt', S1.reorientDur)))
          => S1'.reorientT = F(0)]_vars

\* a tick with dt > 0 has just redrawn the timer to 8 s: only the completion
\* branch assigns a value that large after a positive decrement
C4_Witness ==
    /\ pc = "anim" /\ updated = <<1>> /\ rnd # <<>>
    /\ RLt(F(0), dt)
    /\ S1.reorientT = F(0)
    /\ S1.reorientTimer = F(8)

\* C5 as stated: progress never decreases between two ticks of an active
\* reorientation, a stored progress >= 1 is followed by 0, and the reset to
\* 0 happens on the tick after the one that stored a progress >= 1.
C5_Original ==
    [][pc = "anim" =>
        /\ (RLt(F(0), S1.reorientT) /\ RLt(F(0), S1'.reorientT)
              => RLe(S1.reorientT, S1'.reorientT))
        /\ (RLe(F(1), S1.reorientT) => S1'.reorientT = F(0))
        /\ (RLt(F(0), S1.reorientT) /\ S1'.reorientT = F(0)
              => RLe(F(1), S1.reorientT))]_vars

\* C5 amended: progress never decreases between two ticks of an active
\* reorientation; it drops only by the reset to exactly 0, which happens on
\* the very tick whose advanced progress reaches or exceeds 1, so a progress
\* >= 1 is never stored.
C5_ProgressMonotoneUntilReset ==
    [][pc = "anim" =>
        /\ (RLt(F(0), S1.reorientT) /\ RLt(F(0), S1'.reorientT)
              => RLe(S1.reorientT, S1'.reorientT))
        /\ (RLt(S1'.reorientT, S1.reorientT)
              => /\ S1'.reorientT = F(0)
                 /\ RLe(F(1), RAdd(S1.reorientT,
                                   RDiv(dt', S1.reorientDur))))
        /\ RLt(S1'.reorientT, F(1))]_vars

\* a reorientation is under way with progress past one half
C5_Witness ==
    /\ pc = "anim" /\ updated = <<1>>
    /\ RLt(Rat(1, 2), S1.reorientT) /\ RLt(S1.reorientT, F(1))

\* C6 as stated: the tick that completes a reorientation ends with
\* reorientT = 0 and with both reorientTimer and reorientDur set from a
\* fresh draw of rand(), over [4,8] and [1.5,2.5].
C6_Original ==
    [][pc = "anim" /\ Completes(S1, dt') =>
        /\ S1'.reorientT = F(0)
        /\ \E k \in 1 .. 2 :
              S1'.reorientTimer = frand_range(F(4), F(8), rnd'[k])
        /\ \E k \in 1 .. 2 :
              S1'.reorientDur = frand_range(Rat(3, 2), Rat(5, 2), rnd'[k])
      ]_vars

\* C6 amended: the tick that completes a reorientation ends with
\* reorientT = 0 and reorientTimer redrawn from [4,8]; reorientDur keeps
\* the value drawn at creation.
C6_CompletionRedrawsTimerOnly ==
    [][pc = "anim" /\ Completes(S1, dt') =>
        /\ S1'.reorientT = F(0)
        /\ \E k \in 1 .. 2 :
              S1'.reorientTimer = frand_range(F(4), F(8), rnd'[k])
        /\ RLe(F(4), S1'.reorientTimer) /\ RLe(S1'.reorientTimer, F(8))
        /\ S1'.reorientDur = S1.reorientDur]_vars

\* a completing tick has just happened while rand() offered, as its second
\* result, a duration other than the shape's
C6_Witness ==
    /\ pc = "anim" /\ rnd # <<>>
    /\ S1.reorientT = F(0)
    /\ RLe(F(4), S1.reorientTimer)
    /\ S1.reorientDur # frand_range(Rat(3, 2), Rat(5, 2), rnd[2])

LoopPcs == {"check", "update", "draw", "poll"}

AllClosed == \A k \in 1 .. Len(closeFlag) : closeFlag[k]

\* C1: at the close check the loop exits exactly when every window's close
\* flag is set; otherwise it goes on to a frame that updates and draws every
\* shape before the next check; after the exit no frame runs.
C1_LoopExitsIffAllClosed ==
    /\ [][pc = "check" => /\ (pc' = "return" <=> AllClosed)
                          /\ (pc' # "return" => pc' = "update")]_vars
    /\ [](pc = "check" /\ frame > 0 =>
             /\ \A i \in 1 .. Len(runtime) : updated[i] = 1
             /\ Len(drawn) = Len(runtime))
    /\ [](pc \in {"return", "exit"} /\ exitStatus # 1 => AllClosed)
    /\ [][(pc \in {"return", "exit"})
             => (pc' \in {"return", "exit"} /\ frame' = frame)]_vars

\* two windows, only the first has a close request, and the loop has gone
\* on to its second frame
C1_Witness ==
    /\ pc = "update" /\ frame = 2
    /\ closeFlag = <<TRUE, FALSE>>

\* C2: in a frame every shape is updated exactly once, all updates come
\* before the first draw, and no runtime record changes while the windows
\* are drawn.
C2_UpdateOnceThenReadOnly ==
    /\ [](pc = "update" =>
             /\ drawn = <<>>
             /\ \A i \in 1 .. Len(runtime) :
                   updated[i] = IF i <= ui THEN 1 ELSE 0)
    /\ [](pc \in {"draw", "poll"} =>
             \A i \in 1 .. Len(runtime) : updated[i] = 1)
    /\ [][pc = "update" =>
             \A i \in 1 .. Len(runtime) :
                i # ui + 1 => runtime'[i] = runtime[i]]_vars
    /\ [][pc = "draw" => runtime' = runtime /\ updated' = updated]_vars

\* the second window of a frame is being drawn after shapes were drawn on
\* the first
C2_Witness ==
    /\ pc = "draw" /\ w = 1 /\ di = 1
    /\ Len(drawn) >= 2
    /\ Len(runtime) >= 3

\* C3: shape i is drawn on window i mod W and nowhere else, once per frame,
\* the per-window ranges of mapIdx partition the shapes, and a window draws
\* its shapes in increasing creation order.
C3_RoundRobinAssignment ==
    pc \in LoopPcs =>
       LET W == Len(scr)
           n == Len(runtime)
       IN  /\ \A k \in 1 .. Len(drawn) : drawn[k].w = drawn[k].idx % W
           /\ \A k, l \in 1 .. Len(drawn) :
                 k < l => /\ drawn[k].idx # drawn[l].idx
                          /\ drawn[k].w <= drawn[l].w
                          /\ (drawn[k].w = drawn[l].w
                                => drawn[k].idx < drawn[l].idx)
           /\ (pc = "poll" =>
                 {drawn[k].idx : k \in 1 .. Len(drawn)} = 0 .. n - 1)
           /\ \A v \in 0 .. W - 1 :
                 {mapIdx[j] : j \in start[v] .. start[v] + count[v] - 1}
                    = {i \in 0 .. n - 1 : i % W = v}

\* a frame has drawn three shapes on two windows
C3_Witness ==
    /\ pc = "poll"
    /\ Len(scr) = 2 /\ Len(runtime) = 3
    /\ Len(drawn) = 3

\* the clamped screen index of a record, written out
Clamped(sc) == IF sc.screen < 0 THEN 0
               ELSE IF sc.screen > monCount - 1 THEN monCount - 1
               ELSE sc.screen

ClampedSet == {Clamped(list[i]) : i \in 1 .. Len(list)}

MonIndices == {scr[k].monIndex : k \in 1 .. Len(scr)}

\* C8 as stated: while the loop runs there is one window per distinct
\* clamped screen index, and every record's clamped index has its window.
C8_Original ==
    pc \in LoopPcs =>
       /\ Len(scr) = Cardinality(ClampedSet)
       /\ \A i \in 1 .. Len(list) : Clamped(list[i]) \in MonIndices

\* C8 amended: while the loop runs there is one window per distinct clamped
\* screen index whose glfwCreateWindow succeeded, every clamped index lies
\* in 0 .. monCount-1, and each has its window unless the creation of that
\* monitor's window failed.
C8_SurfacePerCreatedClampedIndex ==
    pc \in LoopPcs =>
       /\ ClampedSet \subseteq 0 .. monCount - 1
       /\ MonIndices = ClampedSet \ createFail
       /\ Len(scr) = Cardinality(ClampedSet \ createFail)
       /\ \A k, l \in 1 .. Len(scr) :
             k < l => scr[k].monIndex < scr[l].monIndex
       /\ \A i \in 1 .. Len(list) :
             Clamped(list[i]) \notin createFail
                => Clamped(list[i]) \in MonIndices

\* the loop runs on two monitors with the window of monitor 0 missing,
\* while records clamp from below to 0 and from above to 1
C8_Witness ==
    /\ pc = "check"
    /\ monCount = 2 /\ createFail = {0}
    /\ \E i, j \in 1 .. Len(list) :
          list[i].screen = -1 /\ list[j].screen = 2

\* some window can be created
CanCreate == monCount > 0 /\ ClampedSet \ createFail # {}

\* C9: without monitors, or when every needed window fails, the process
\* exits with 1 before any frame; otherwise the failing monitors are
\* skipped, the loop runs on exactly the created windows and the process
\* exits with 0 once all are closed.
C9_StartupOutcomes ==
    /\ (pc \in {"build", "loop_setup", "return"} \cup LoopPcs => CanCreate)
    /\ (pc = "exit" /\ closeFlag = <<>> => ~CanCreate)
    /\ (exitStatus = 1 <=> pc = "exit" /\ closeFlag = <<>>)
    /\ (exitStatus = 1 => frame = 0)
    /\ (pc \in LoopPcs =>
          /\ MonIndices = {m \in 0 .. monCount - 1 :
                              /\ m \notin createFail
                              /\ \E i \in 1 .. Len(list) :
                                    Clamped(list[i]) = m}
          /\ Len(closeFlag) = Len(scr)
          /\ DOMAIN count = 0 .. Len(scr) - 1)
    /\ (pc = "exit" /\ Len(closeFlag) > 0 => exitStatus = 0 /\ AllClosed)

\* a normal exit after frames on the one window left of two needed
C9_Witness ==
    /\ pc = "exit" /\ exitStatus = 0
    /\ frame >= 1
    /\ monCount = 2 /\ createFail = {1}
    /\ Len(closeFlag) = 1

\* ----------------------------------------------------- placement claims
\* the number of records read before the one just placed that have its
\* clamped monitor and its anchor
Occurrence == CopiesIn(<<Clamped(list[1]), list[1].pos>>, seen) - 1

\* the inward pull 0.12 + 0.05*N
Pull(N) == RAdd(Rat(12, 100), RMul(Rat(5, 100), F(N)))

\* C10: the N-th record of a (clamped monitor, corner anchor) pair is placed
\* at its corner of [-1,1]x[-1,1] moved inward by 0.12 + 0.05*N on each
\* axis; records of another monitor or anchor do not count.
C10_CornerPlacement ==
    pc = "place" /\ list # <<>> =>
       LET a == list[1].pos
           p == runtime[1].worldPos
           m == Pull(Occurrence)
       IN  /\ (a = "POS_TL" => p = <<RAdd(F(-1), m), RSub(F(1), m)>>)
           /\ (a = "POS_TR" => p = <<RSub(F(1), m), RSub(F(1), m)>>)
           /\ (a = "POS_BL" => p = <<RAdd(F(-1), m), RAdd(F(-1), m)>>)
           /\ (a = "POS_BR" => p = <<RSub(F(1), m), RAdd(F(-1), m)>>)

\* the record just placed is the second BOTTOM-RIGHT one of monitor 1; its
\* screen index was clamped from above
C10_Witness ==
    /\ pc = "place" /\ BagCardinality(seen) = 2
    /\ list[1].pos = "POS_BR" /\ list[1].screen = 2 /\ monCount = 2
    /\ Occurrence = 1
    /\ runtime[1].worldPos = <<Rat(83, 100), Rat(-83, 100)>>

\* the anchors whose base x is 0, and those whose base y is 0
CenterX == {"POS_TC", "POS_C", "POS_BC"}
CenterY == {"POS_CL", "POS_C", "POS_CR"}

\* C11 as stated: on an axis where the anchor's base coordinate is 0 the
\* final world coordinate is 0 for every occurrence number; every CENTER
\* record is placed at (0,0).
C11_Original ==
    pc = "place" /\ list # <<>> =>
       LET a == list[1].pos
           p == runtime[1].worldPos
       IN  /\ (a \in CenterX => p[1] = F(0))
           /\ (a \in CenterY => p[2] = F(0))

\* C11 amended: on an axis where the anchor's base coordinate is 0 the margin
\* pull leaves the coordinate at 0 and the overlap offset moves it to
\* -0.05*N, so it is 0 only for the first record (N = 0) of its (monitor,
\* anchor) pair; the N-th CENTER record is placed at (-0.05*N, -0.05*N).
C11_CenterAxisOffset ==
    pc = "place" /\ list # <<>> =>
       LET a   == list[1].pos
           p   == runtime[1].worldPos
           anc == anchor_to_ndc(a)
           off == RMul(Rat(5, 100), F(Occurrence))
       IN  /\ (a \in CenterX <=> anc[1] = F(0))
           /\ (a \in CenterY <=> anc[2] = F(0))
           /\ (a \in CenterX => anchor_margin(anc, Rat(12, 100))[1] = F(0))
           /\ (a \in CenterY => anchor_margin(anc, Rat(12, 100))[2] = F(0))
           /\ (a \in CenterX => p[1] = RNeg(off))
           /\ (a \in CenterY => p[2] = RNeg(off))
           /\ (Occurrence = 0 /\ a = "POS_C" => p = <<F(0), F(0)>>)

\* the record just placed is the second CENTER one of its monitor
C11_Witness ==
    /\ pc = "place" /\ BagCardinality(seen) = 2
    /\ list[1].pos = "POS_C"
    /\ Occurrence = 1
    /\ runtime[1].worldPos = <<Rat(-1, 20), Rat(-1, 20)>>

\* ------------------------------------------------------ load_ini claims
Range(q) == {q[i] : i \in 1 .. Len(q)}

\* the line has a "=", and after it a "[" that the first "]" follows
WellBracketed(p) ==
    \E e \in 1 .. Len(p) :
       /\ p[e] = "=" /\ \A i \in 1 .. e - 1 : p[i] # "="
       /\ \E l, r \in e + 1 .. Len(p) :
             /\ l < r /\ p[l] = "[" /\ p[r] = "]"
             /\ \A i \in e + 1 .. r - 1 : p[i] # "]"

\* the tokens between the brackets of a well bracketed line
Inside(p) ==
    LET l == CHOOSE i \in 1 .. Len(p) :
                p[i] = "[" /\ \A j \in 1 .. i - 1 : p[j] # "["
        r == CHOOSE i \in 1 .. Len(p) :
                p[i] = "]" /\ \A j \in 1 .. i - 1 : p[j] # "]"
    IN  SubSeq(p, l + 1, r - 1)

\* the number of comma-separated fields between the brackets
FieldCount(p) ==
    Cardinality({i \in 1 .. Len(Inside(p)) : Inside(p)[i] = ","}) + 1

\* the words between the brackets, in order
RECURSIVE Words(_)
Words(q) == IF q = <<>> THEN <<>>
            ELSE IF Head(q) = "," THEN Words(Tail(q))
            ELSE <<Head(q)>> \o Words(Tail(q))

\* the record a line names by its first word and its first three fields
Named(p) ==
    LET ws == Words(Inside(p))
        ix(names, x) == CHOOSE i \in 1 .. Len(names) : names[i] = x
    IN  [shape  |-> ShapeEnum[ix(SHAPE_NAMES, p[1])],
         color  |-> ColorEnum[ix(COLOR_NAMES, ws[1])],
         pos    |-> PosEnum[ix(POS_NAMES, ws[2])],
         screen |-> CASE ws[3] = "1" -> 1 [] ws[3] = "2" -> 2 [] OTHER -> 0]

Recognized(p) ==
    LET ws == Words(Inside(p))
    IN  /\ p[2] = "="
        /\ p[1] \in Range(SHAPE_NAMES)
        /\ Len(ws) >= 3
        /\ ws[1] \in Range(COLOR_NAMES)
        /\ ws[2] \in Range(POS_NAMES)

\* a record line as C12 states it: exactly three comma-separated fields
ValidExact(p) ==
    /\ p # <<>> /\ p[1] # "#"
    /\ WellBracketed(p) /\ FieldCount(p) = 3 /\ Recognized(p)

\* a record line as load_ini takes it: at least three non-empty fields
ValidAtLeast(p) ==
    /\ p # <<>> /\ p[1] # "#"
    /\ WellBracketed(p) /\ Recognized(p)

\* the records of the first n lines that are valid, in file order
RECURSIVE RecordsExact(_, _)
RecordsExact(f, n) ==
    IF n = 0 THEN <<>>
    ELSE RecordsExact(f, n - 1)
            \o (IF ValidExact(f[n]) THEN <<Named(f[n])>> ELSE <<>>)

RECURSIVE RecordsAtLeast(_, _)
RecordsAtLeast(f, n) ==
    IF n = 0 THEN <<>>
    ELSE RecordsAtLeast(f, n - 1)
            \o (IF ValidAtLeast(f[n]) THEN <<Named(f[n])>> ELSE <<>>)

\* C12 as stated: load_ini returns a non-empty list; lines without "=",
\* without brackets, without exactly three comma-separated fields or with an
\* unknown token are passed over and the lines after them are still read;
\* the result is the valid records in file order, or the one default record.
C12_Original ==
    pc = "ini" =>
       /\ (ini.at = "fgets" =>
              ini.L = RecordsExact(ini.file, ini.read))
       /\ (ini.at = "return" =>
              /\ ini.L # <<>>
              /\ ini.L =
                    IF ~ini.exists
                          \/ RecordsExact(ini.file, Len(ini.file))
                                = <<>>
                    THEN <<DefaultConfig>>
                    ELSE RecordsExact(ini.file, Len(ini.file)))

\* C12 amended: as stated, except that a line is passed over for its fields
\* only when it has fewer than three non-empty comma-separated fields; a
\* line with more takes its record from the first three.
C12_LoadIniSkipsBadLines ==
    /\ [](pc = "ini" =>
          /\ (ini.at = "fgets" =>
                 ini.L = RecordsAtLeast(ini.file, ini.read))
          /\ (ini.at = "return" =>
                 /\ ini.L # <<>>
                 /\ ini.L =
                       IF ~ini.exists
                             \/ RecordsAtLeast(ini.file, Len(ini.file)) = <<>>
                       THEN <<DefaultConfig>>
                       ELSE RecordsAtLeast(ini.file, Len(ini.file))))
    /\ [][pc = "ini" /\ ini.at = "fgets" /\ ini.read < Len(ini.file)
             => ini'.at = "fgets" /\ ini'.read = ini.read + 1]_vars
    /\ [](pc = "main" => list = ini.L /\ list # <<>>)

\* a file of a line with one field followed by a record line has been read
\* and gave the record of its second line
C12_Witness ==
    /\ pc = "ini" /\ ini.at = "return" /\ ini.exists
    /\ ini.file = <<<<"BAD", "=", "[", "RED", "]">>,
                    <<"CUBE", "=", "[", "RED", ",", "CENTER", ",", "0", "]">>>>
    /\ ini.L = <<[shape |-> "SH_CUBE", color |-> "COL_RED", pos |-> "POS_C",
                  screen |-> 0]>>

\* ------------------------------------------------------ geometry claims
\* C13: the mesh of every call has at least one edge, its index array holds
\* two indices per edge and every index is below the vertex count; this
\* covers the calls main makes (sphere 10x16, torus 32x12) and every sphere
\* and torus with segment counts 1 .. MaxSeg.  The sphere stays within its
\* vertex buffer.
C13_EdgesIndexVertices ==
    /\ \A sh \in ShapeKinds : MainGeomCall(sh) \in GeomCalls
    /\ (pc = "geom" /\ geo.at = "done" =>
          /\ geo.g.lcount > 0
          /\ Len(geo.g.lines) = 2 * geo.g.lcount
          /\ \A k \in 1 .. Len(geo.g.lines) :
                geo.g.lines[k] >= 0 /\ geo.g.lines[k] < geo.g.vcount
          /\ (geo.call.fn = "make_sphere" =>
                geo.g.vcount <= SphereMaxV(geo.call.a, geo.call.b)))

\* the sphere of main has been generated: 560 vertices and 544 edges
C13_Witness ==
    /\ pc = "geom" /\ geo.at = "done"
    /\ geo.call = [fn |-> "make_sphere", a |-> 10, b |-> 16]
    /\ geo.g.vcount = 560 /\ geo.g.lcount = 544

\* ---------------------------------------------- spin and target claims
\* the spin rate scale of a tick, read off the progress it ends with
EndScale(T) == IF RLt(F(0), T) /\ RLt(T, F(1)) THEN Rat(1, 2) ELSE F(1)

\* C14: every tick pre-multiplies the spin delta onto the orientation; its
\* yaw and pitch are spinY*k*dt and spinX*k*dt with k = 0.5 exactly when the
\* tick ends with 0 < reorientT < 1 and k = 1 otherwise; the tick that
\* starts a reorientation has k = 0.5, the tick that completes one has
\* k = 1 and spins the target it snapped to.
C14_SpinEveryTickHalvedInTransit ==
    [][pc = "spin" =>
        LET s  == S1
            s2 == S1'
            k  == EndScale(s2.reorientT)
        IN  /\ s2.orient[1] = "mul"
            /\ s2.orient[2] = SpinDelta(RMul(RMul(s.spinY, k), dt'),
                                        RMul(RMul(s.spinX, k), dt'))
            /\ (~Reorienting(s, dt') => k = F(1) /\ s2.orient[3] = Prev)
            /\ (Entering(s, dt') => k = Rat(1, 2))
            /\ (Completes(s, dt') => k = F(1) /\ s2.orient[3] = s2.target)
            /\ (Reorienting(s, dt') /\ ~Completes(s, dt') =>
                   /\ k = Rat(1, 2)
                   /\ s2.orient[3] = q_slerp(Prev, s2.target, s2.reorientT))
            /\ s2.spinY = s.spinY /\ s2.spinX = s.spinX]_vars

\* a tick of 0.1 s in the middle of a reorientation has spun the shape by
\* half of 18 and 1.5 degrees
C14_Witness ==
    /\ pc = "spin" /\ updated = <<1>>
    /\ dt = Rat(1, 10)
    /\ RLt(Rat(1, 2), S1.reorientT) /\ RLt(S1.reorientT, F(1))
    /\ S1.orient[2] = SpinDelta(F(9), Rat(3, 4))

\* C15: the target changes only on the tick that starts a reorientation
\* (timer <= 0 after the decrement, progress 0 on entry), where it is
\* sampled from fresh results of rand(); that tick leaves a progress above
\* 0, so it happens once per reorientation; a tick with timer > 0 after the
\* decrement and progress 0 leaves target, progress and duration alone, and
\* the ticks that continue or complete a reorientation leave the target
\* alone.
C15_TargetSampledOnEntryOnly ==
    /\ [](pc = "spin" =>
             /\ RLe(F(0), S1.reorientT)
             /\ (S1.reorientT = F(0) => RLt(F(0), S1.reorientTimer)))
    /\ [][pc = "spin" =>
          LET s  == S1
              s2 == S1'
          IN  /\ (~Reorienting(s, dt') =>
                     /\ s2.target = s.target
                     /\ s2.reorientT = s.reorientT
                     /\ s2.reorientDur = s.reorientDur)
              /\ (RLt(F(0), s.reorientT) => s2.target = s.target)
              /\ (s2.target # s.target =>
                     /\ s.reorientT = F(0)
                     /\ RLe(RSub(s.reorientTimer, dt'), F(0)))
              /\ (Entering(s, dt') =>
                     /\ s2.target = SampleTarget(rnd')
                     /\ RLt(F(0), s2.reorientT))]_vars

\* a reorientation has just started with a target sampled at the upper end
\* of the range
C15_Witness ==
    /\ pc = "spin" /\ rnd # <<>>
    /\ RLt(F(0), dt)
    /\ S1.reorientT = RDiv(dt, S1.reorientDur)
    /\ S1.target = q_from_euler(Rat(3, 2), Rat(3, 2), Rat(3, 2))

\* ------------------------------------------------------- stacking claim
\* C16: two distinct shapes drawn on the same window in a frame never have
\* the same world position.
C16_NoStackingOnASurface ==
    pc \in LoopPcs =>
       \A k, l \in 1 .. Len(drawn) :
          (k # l /\ drawn[k].w = drawn[l].w) =>
             runtime[drawn[k].idx + 1].worldPos
                # runtime[drawn[l].idx + 1].worldPos

====
